---- MODULE Spec2Model ----
(***************************************************************************)
(* Model of the threaded downloader of "Parallel Programming in Python":   *)
(* download_xkcd_threaded, DownloadThread and download_worker, together    *)
(* with the parts of queue.Queue they use (put, empty, get, task_done,     *)
(* join).  One main thread runs download_xkcd_threaded; it starts          *)
(* DownloadThread objects that run download_worker over the shared queue.  *)
(***************************************************************************)
EXTENDS Integers, Sequences, FiniteSets, TLC

\* ---- bounds of the model ----
MaxThreads == 2
MaxStart == 1
MaxStop == 3
\* threaded_foo starts 100 threads; the model starts FooThreads of them
FooThreads == 3
MaxN0 == 1
MaxSize == 3
MaxSamples == 3
MaxProc == 2
MaxStrings == 2
MaxTheta == 1
MaxSigma == 2
MaxData == 1
MaxCalls == 2
MaxCallStop == 2

\* the local variable i of download_worker before its first q.get()
NoItem == -1

\* the index whose "Not Found" page is not reported (`i != 404`)
SilentIndex == 404

TIDs == 0..MaxThreads
ItemIds == 0..MaxStop
FooIds == 0..(FooThreads - 1)
Ranks == 0..(MaxSize - 1)
PoolIds == 0..(MaxProc - 1)
Calls == 1..MaxCalls

\* processes = [mp.Process(...) for x in range(4)]
NumProcesses == 4
ProcIds == 0..(NumProcesses - 1)

\* Python's None, where the MPI programs hold it in place of a number
MpiNone == -1

VARIABLES
    nthreads,      \* argument nthreads of download_xkcd_threaded
    start,         \* argument start
    stop,          \* argument stop
    fails,         \* the indices whose processing raises (HTTP / file error)
    notfound,      \* the indices whose page has no comic image: the search
                   \* for the image fails and the page says "Not Found"
    seqpc,         \* download_xkcd: "loop", "returned" or "raised"
    si,            \* download_xkcd: loop variable i
    content,       \* download_xkcd: local variable content
    attempts,      \* download_xkcd: the indices requested, in order
    mainpc,        \* position of the main thread in download_xkcd_threaded
    mi,            \* loop variable i of the two for loops
    threads,       \* the list threads
    q,             \* the items held by the Queue, oldest first
    unfinished,    \* Queue.unfinished_tasks
    pc,            \* position of every DownloadThread
    running,       \* DownloadThread.running
    item,          \* local variable i of download_worker
    claims,        \* how often q.get() has delivered each index
    completions,   \* how often the body of the loop has finished for an index
    sawEmpty,      \* the thread has seen q.empty() return True
    raised,        \* the thread has ended with an uncaught exception
    reported,      \* the indices for which 'Failed to download' was printed
    written,       \* how often the threads have opened each file for writing
    heldAtStop,    \* stop() was called while the thread held an index
    n,             \* threaded_foo: the global n
    n0,            \* threaded_foo: the value of n when threaded_foo is called
    fpc,           \* threaded_foo: position of the calling thread
    fi,            \* threaded_foo: position in the list threads
    fst,           \* threaded_foo: position of every thread running foo
    ftmp,          \* foo: the value of n loaded by `n += 1`
    fout,          \* threaded_foo: the values printed
    variant,       \* which MPI program runs: "sendrcv", "scattergather", "reduce"
    size,          \* comm.Get_size()
    nsamples,      \* argument n_samples
    rpc,           \* position of every rank
    hello,         \* the ranks that have printed 'I am rank ...'
    atbar,         \* the ranks that have called comm.Barrier()
    slist,         \* the list scattered by the root (empty before it)
    per,           \* n_samples_per_task of every rank
    incircle,      \* n_in_circle of every rank
    insum,         \* n_in_circle_sum of every rank: its type and value
    draws,         \* draws_sum of every rank
    cbuf,          \* the contributions handed to gather / reduce
    msgs,          \* the messages sent to rank 0 and not yet received
    nrecv,         \* the receives completed by rank 0
    aout,          \* the areas printed by every rank, as <<numerator, denominator>>
    pmode,         \* which pool program runs: "mp" or "async"
    nproc,         \* argument n_proc
    psamples,      \* argument n_samples
    ppc,           \* position of the process that calls monte_carlo_area_*
    pk,            \* position in range(n_proc) / in the list results
    ptask,         \* state of every task handed to the pool
    pargs,         \* argument n of every task
    pval,          \* n_in_circle returned by every task
    pres,          \* the (n_in_circle, n) pairs obtained by the caller
    pprint,        \* the lines printed by the caller
    epc,           \* mp.Process example: position of the parent
    ei,            \* mp.Process example: position in the list processes
    est,           \* mp.Process example: position of every child
    ebuf,          \* the string every child has put and not yet flushed
    oq,            \* the strings in the pipe of the Queue output
    eres,          \* the list results
    tb,            \* lnprob: component b of theta
    tm,            \* lnprob: component m of theta
    tsigma,        \* lnprob: component sigma of theta
    dx,            \* the data point x of args
    dy,            \* the data point y of args
    lpc,           \* position in lnprob
    lp,            \* lnprob: local variable p
    ll,            \* the value returned by lnlike
    lout,          \* the value returned by lnprob
    likeCalls,     \* how often lnlike has been evaluated
    callno,        \* how many calls of download_xkcd_threaded have begun
    qid,           \* the Queue object bound to q in the running call, named
                   \* by the call that constructed it
    oldq,          \* the Queue objects of the calls that have returned
    old,           \* the threads started by the calls that have returned
    gets           \* <<c, k>>: a thread of call c has taken an item put by call k

dlvars == <<nthreads, start, stop, fails, notfound, seqpc, si, content,
            attempts, mainpc, mi, threads, q, unfinished,
            pc, running, item, claims, completions, sawEmpty, raised,
            reported, written, heldAtStop>>

foovars == <<n, n0, fpc, fi, fst, ftmp, fout>>

\* the state of the other programs of the notebook
mpivars == <<variant, size, nsamples, rpc, hello, atbar, slist, per, incircle,
             insum, draws, cbuf, msgs, nrecv, aout>>

poolvars == <<pmode, nproc, psamples, ppc, pk, ptask, pargs, pval, pres, pprint>>

procvars == <<epc, ei, est, ebuf, oq, eres>>

lnvars == <<tb, tm, tsigma, dx, dy, lpc, lp, ll, lout, likeCalls>>

callvars == <<callno, qid, oldq, old, gets>>

others == <<foovars, mpivars, poolvars, procvars, lnvars, callvars>>

vars == <<dlvars, others>>

inputs == <<nthreads, start, stop, fails, notfound>>
seqvars == <<seqpc, si, content, attempts>>
mainvars == <<mainpc, mi, threads>>
ghost == <<claims, completions, sawEmpty, raised, reported, written, heldAtStop>>

\* path + str(i) + imgurl[-4:]: the extension is fixed by the page of index i
FileNameNoIndex(i) == <<"xkcd_", 0>>
FileName(i) == <<"xkcd_", i>>

FileNames == {FileName(i) : i \in ItemIds}

\* range(start, stop), the indices put on the queue
ItemRangeIncl == start..stop
ItemRange == start..(stop - 1)

\* range(nthreads), the threads that are created
ThreadRangeIncl == 0..nthreads
ThreadRange == 0..(nthreads - 1)

\* threaded_foo is not running
FooIdle ==
    /\ n = 0
    /\ n0 = 0
    /\ fpc = "idle"
    /\ fi = 0
    /\ fst = [t \in FooIds |-> "new"]
    /\ ftmp = [t \in FooIds |-> 0]
    /\ fout = <<>>

\* no MPI program is running
MpiIdle ==
    /\ variant = "none"
    /\ size = 1
    /\ nsamples = 0
    /\ rpc = [r \in Ranks |-> "off"]
    /\ hello = {}
    /\ atbar = {}
    /\ slist = <<>>
    /\ per = [r \in Ranks |-> MpiNone]
    /\ incircle = [r \in Ranks |-> 0]
    /\ insum = [r \in Ranks |-> [kind |-> "nparray", val |-> 0]]
    /\ draws = [r \in Ranks |-> 0]
    /\ cbuf = [r \in Ranks |-> MpiNone]
    /\ msgs = {}
    /\ nrecv = 0
    /\ aout = [r \in Ranks |-> <<>>]

\* no pool program is running
PoolIdle ==
    /\ pmode = "none"
    /\ nproc = 0
    /\ psamples = 0
    /\ ppc = "idle"
    /\ pk = 0
    /\ ptask = [k \in PoolIds |-> "none"]
    /\ pargs = [k \in PoolIds |-> 0]
    /\ pval = [k \in PoolIds |-> 0]
    /\ pres = <<>>
    /\ pprint = <<>>

\* the mp.Process example is not running
ProcIdle ==
    /\ epc = "idle"
    /\ ei = 0
    /\ est = [p \in ProcIds |-> "new"]
    /\ ebuf = [p \in ProcIds |-> 0]
    /\ oq = <<>>
    /\ eres = <<>>

\* a float64: its IEEE class and, when finite, the expression it stands for
Fin(e) == [kind |-> "fin", term |-> e]
PInf == [kind |-> "pinf", term |-> <<>>]
NInf == [kind |-> "ninf", term |-> <<>>]
NaN == [kind |-> "nan", term |-> <<>>]
Unset == [kind |-> "unset", term |-> <<>>]

\* lnprob is not running
LnIdle ==
    /\ tb = 0
    /\ tm = 0
    /\ tsigma = Fin(<<1>>)
    /\ dx = 0
    /\ dy = 0
    /\ lpc = "idle"
    /\ lp = Unset
    /\ ll = Unset
    /\ lout = Unset
    /\ likeCalls = 0

\* a call of which nothing is left: no Queue object and no thread
NoQueue == [items |-> <<>>, unf |-> 0]
NoThread == [pc |-> "new", item |-> NoItem, bad |-> FALSE, run |-> FALSE, tq |-> 0]

\* no call of download_xkcd_threaded has returned before the running one
FirstCall ==
    /\ callno = 1
    /\ qid = 1
    /\ oldq = [c \in Calls |-> NoQueue]
    /\ old = [c \in Calls |-> [t \in TIDs |-> NoThread]]
    /\ gets = {}

OthersIdle == FooIdle /\ MpiIdle /\ PoolIdle /\ ProcIdle /\ LnIdle /\ FirstCall

Init ==
    /\ OthersIdle
    /\ nthreads \in 0..MaxThreads
    /\ start \in 0..MaxStart
    /\ stop \in 0..MaxStop
    /\ fails \in SUBSET ItemRange
    /\ notfound \in SUBSET (ItemRange \ fails)
    /\ seqpc = "loop"
    /\ si = start
    /\ content = TRUE
    /\ attempts = <<>>
    /\ mainpc = "seq"
    /\ mi = start
    /\ threads = <<>>
    /\ q = <<>>
    /\ unfinished = 0
    /\ pc = [t \in TIDs |-> "new"]
    /\ running = [t \in TIDs |-> FALSE]
    /\ item = [t \in TIDs |-> NoItem]
    /\ claims = [i \in ItemIds |-> 0]
    /\ completions = [i \in ItemIds |-> 0]
    /\ sawEmpty = [t \in TIDs |-> FALSE]
    /\ raised = [t \in TIDs |-> FALSE]
    /\ reported = {}
    /\ written = [f \in FileNames |-> 0]
    /\ heldAtStop = [t \in TIDs |-> FALSE]

\* ------------------------------------------------------------------
\* download_xkcd (the sequential downloader, run in the cell before the
\* threaded one, with the same range)
\* ------------------------------------------------------------------

\* for i in range(start, stop): the loop goes on while indices are left
SeqMoreWhileContent == si \in ItemRange /\ content
SeqMore == si \in ItemRange

\* one pass of the loop body: request, search, copy the image or note that
\* the page says "Not Found"
SeqStep ==
    /\ mainpc = "seq"
    /\ SeqMore
    /\ si \notin fails
    /\ attempts' = Append(attempts, si)
    /\ content' = IF si \in notfound /\ si # SilentIndex THEN FALSE ELSE content
    /\ si' = si + 1
    /\ UNCHANGED <<inputs, seqpc, mainvars, q, unfinished, pc, running, item,
                   ghost, others>>

\* the request or the copy raises: download_xkcd ends with the exception and
\* the next cell is run
SeqRaise ==
    /\ mainpc = "seq"
    /\ SeqMore
    /\ si \in fails
    /\ attempts' = Append(attempts, si)
    /\ seqpc' = "raised"
    /\ mainpc' = "put"
    /\ UNCHANGED <<inputs, si, content, mi, threads, q, unfinished, pc, running,
                   item, ghost, others>>

\* the loop is exhausted: download_xkcd returns and the next cell is run
SeqDone ==
    /\ mainpc = "seq"
    /\ ~SeqMore
    /\ seqpc' = "returned"
    /\ mainpc' = "put"
    /\ UNCHANGED <<inputs, si, content, attempts, mi, threads, q, unfinished,
                   pc, running, item, ghost, others>>

\* ------------------------------------------------------------------
\* download_xkcd_threaded (the main thread)
\* ------------------------------------------------------------------

\* for i in range(start, stop): q.put(i)
PutFront ==
    /\ mainpc = "put"
    /\ mi \in ItemRange
    /\ q' = <<mi>> \o q
    /\ unfinished' = unfinished + 1
    /\ mi' = mi + 1
    /\ UNCHANGED <<inputs, seqvars, others, mainpc, threads, pc, running, item, ghost>>

Put ==
    /\ mainpc = "put"
    /\ mi \in ItemRange
    /\ q' = Append(q, mi)
    /\ unfinished' = unfinished + 1
    /\ mi' = mi + 1
    /\ UNCHANGED <<inputs, seqvars, others, mainpc, threads, pc, running, item, ghost>>

\* the first for loop is exhausted; the second one begins with i = 0
PutDone ==
    /\ mainpc = "put"
    /\ mi \notin ItemRange
    /\ mainpc' = "spawn"
    /\ mi' = 0
    /\ UNCHANGED <<inputs, seqvars, others, threads, q, unfinished, pc, running, item, ghost>>

\* t = DownloadThread(download_worker, (q,)): __init__ sets running = False
Construct ==
    /\ mainpc = "spawn"
    /\ mi \in ThreadRange
    /\ pc' = [pc EXCEPT ![mi] = "created"]
    /\ running' = [running EXCEPT ![mi] = FALSE]
    /\ mainpc' = "start"
    /\ UNCHANGED <<inputs, seqvars, others, mi, threads, q, unfinished, item, ghost>>

\* the second for loop is exhausted
SpawnDone ==
    /\ mainpc = "spawn"
    /\ mi \notin ThreadRange
    /\ mainpc' = "join"
    /\ UNCHANGED <<inputs, seqvars, others, mi, threads, q, unfinished, pc, running, item, ghost>>

\* DownloadThread.start(): running = True, then the thread begins run()
StartNoFlag(t) ==
    /\ pc[t] = "created"
    /\ pc' = [pc EXCEPT ![t] = "run"]
    /\ UNCHANGED running

Start(t) ==
    /\ pc[t] = "created"
    /\ running' = [running EXCEPT ![t] = TRUE]
    /\ pc' = [pc EXCEPT ![t] = "run"]

\* t.start()
StartThread ==
    /\ mainpc = "start"
    /\ Start(mi)
    /\ mainpc' = "append"
    /\ UNCHANGED <<inputs, seqvars, others, mi, threads, q, unfinished, item, ghost>>

\* threads.append(t)
AppendThread ==
    /\ mainpc = "append"
    /\ threads' = Append(threads, mi)
    /\ mi' = mi + 1
    /\ mainpc' = "spawn"
    /\ UNCHANGED <<inputs, seqvars, others, q, unfinished, pc, running, item, ghost>>

\* Queue.join(): blocks while unfinished_tasks is not zero
JoinNoWait ==
    /\ mainpc = "join"
    /\ mainpc' = "del"
    /\ UNCHANGED <<inputs, seqvars, others, mi, threads, q, unfinished, pc, running, item, ghost>>

Join ==
    /\ mainpc = "join"
    /\ unfinished = 0
    /\ mainpc' = "del"
    /\ UNCHANGED <<inputs, seqvars, others, mi, threads, q, unfinished, pc, running, item, ghost>>

\* while len(threads) > 0: del threads[-1]
DelThread ==
    /\ mainpc = "del"
    /\ Len(threads) > 0
    /\ threads' = SubSeq(threads, 1, Len(threads) - 1)
    /\ UNCHANGED <<inputs, seqvars, others, mainpc, mi, q, unfinished, pc, running, item, ghost>>

\* the while loop ends and download_xkcd_threaded returns
Return ==
    /\ mainpc = "del"
    /\ Len(threads) = 0
    /\ mainpc' = "returned"
    /\ UNCHANGED <<inputs, seqvars, others, mi, threads, q, unfinished, pc, running, item, ghost>>

Main ==
    \/ SeqStep
    \/ SeqRaise
    \/ SeqDone
    \/ Put
    \/ PutDone
    \/ Construct
    \/ SpawnDone
    \/ StartThread
    \/ AppendThread
    \/ Join
    \/ DelThread
    \/ Return

\* ------------------------------------------------------------------
\* DownloadThread.run and download_worker (one thread t)
\* ------------------------------------------------------------------

\* while self.running: self.function(*self.args)
RunLoopIgnoreFlag(t) ==
    /\ pc[t] = "run"
    /\ pc' = [pc EXCEPT ![t] = "empty"]
    /\ UNCHANGED <<inputs, seqvars, others, mainvars, q, unfinished, running, item, ghost>>

RunLoop(t) ==
    /\ pc[t] = "run"
    /\ pc' = [pc EXCEPT ![t] = IF running[t] THEN "empty" ELSE "dead"]
    /\ UNCHANGED <<inputs, seqvars, others, mainvars, q, unfinished, running, item, ghost>>

\* while not q.empty(): an empty queue ends download_worker, which returns
\* to the loop of run()
QEmpty(t) ==
    /\ pc[t] = "empty"
    /\ IF Len(q) = 0
          THEN /\ pc' = [pc EXCEPT ![t] = "run"]
               /\ sawEmpty' = [sawEmpty EXCEPT ![t] = TRUE]
          ELSE /\ pc' = [pc EXCEPT ![t] = "get"]
               /\ UNCHANGED sawEmpty
    /\ UNCHANGED <<inputs, seqvars, others, mainvars, q, unfinished, running, item,
                   claims, completions, raised, reported, written, heldAtStop>>

\* i = q.get(): blocks while the queue is empty, then removes the oldest item
QGetPeek(t) ==
    /\ pc[t] = "get"
    /\ Len(q) > 0
    /\ item' = [item EXCEPT ![t] = Head(q)]
    /\ claims' = [claims EXCEPT ![Head(q)] = @ + 1]
    /\ UNCHANGED q
    /\ pc' = [pc EXCEPT ![t] = "task_done"]
    /\ UNCHANGED <<inputs, seqvars, others, mainvars, unfinished, running,
                   completions, sawEmpty, raised, reported, written,
                   heldAtStop>>

QGet(t) ==
    /\ pc[t] = "get"
    /\ Len(q) > 0
    /\ item' = [item EXCEPT ![t] = Head(q)]
    /\ claims' = [claims EXCEPT ![Head(q)] = @ + 1]
    /\ q' = Tail(q)
    /\ pc' = [pc EXCEPT ![t] = "task_done"]
    /\ UNCHANGED <<inputs, seqvars, others, mainvars, unfinished, running,
                   completions, sawEmpty, raised, reported, written,
                   heldAtStop>>

\* q.task_done(): decrements unfinished_tasks, ValueError when called too often
TaskDone(t) ==
    /\ pc[t] = "task_done"
    /\ IF unfinished <= 0
          THEN /\ pc' = [pc EXCEPT ![t] = "dead"]
               /\ raised' = [raised EXCEPT ![t] = TRUE]
               /\ UNCHANGED unfinished
          ELSE /\ pc' = [pc EXCEPT ![t] = "process"]
               /\ unfinished' = unfinished - 1
               /\ UNCHANGED raised
    /\ UNCHANGED <<inputs, seqvars, others, mainvars, q, running, item,
                   claims, completions, sawEmpty, reported, written, heldAtStop>>

\* the rest of the loop body when the image is found: the image is copied to
\* the file path + str(i) + extension, and the loop tests q.empty() again
ProcessDone(t) ==
    /\ pc[t] = "process"
    /\ item[t] \notin fails
    /\ item[t] \notin notfound
    /\ written' = [written EXCEPT ![FileName(item[t])] = @ + 1]
    /\ completions' = [completions EXCEPT ![item[t]] = @ + 1]
    /\ pc' = [pc EXCEPT ![t] = "empty"]
    /\ UNCHANGED <<inputs, seqvars, others, mainvars, q, unfinished, running, item,
                   claims, sawEmpty, raised, reported, heldAtStop>>

\* the rest of the loop body when the image is not found: the failure is
\* printed (unless i is 404) and the loop tests q.empty() again
ProcessNotFoundStop(t) ==
    /\ pc[t] = "process"
    /\ item[t] \in notfound
    /\ reported' = IF item[t] # SilentIndex THEN reported \cup {item[t]}
                                            ELSE reported
    /\ completions' = [completions EXCEPT ![item[t]] = @ + 1]
    /\ pc' = [pc EXCEPT ![t] = "dead"]
    /\ UNCHANGED <<inputs, seqvars, others, mainvars, q, unfinished, running, item,
                   claims, sawEmpty, raised, written, heldAtStop>>

ProcessNotFound(t) ==
    /\ pc[t] = "process"
    /\ item[t] \in notfound
    /\ reported' = IF item[t] # SilentIndex THEN reported \cup {item[t]}
                                            ELSE reported
    /\ completions' = [completions EXCEPT ![item[t]] = @ + 1]
    /\ pc' = [pc EXCEPT ![t] = "empty"]
    /\ UNCHANGED <<inputs, seqvars, others, mainvars, q, unfinished, running, item,
                   claims, sawEmpty, raised, written, heldAtStop>>

\* the rest of the loop body raises: nothing in download_worker or run()
\* catches it, so the thread ends
ProcessRaiseRequeue(t) ==
    /\ pc[t] = "process"
    /\ item[t] \in fails
    /\ pc' = [pc EXCEPT ![t] = "dead"]
    /\ raised' = [raised EXCEPT ![t] = TRUE]
    /\ q' = Append(q, item[t])
    /\ UNCHANGED <<inputs, seqvars, others, mainvars, unfinished, running, item,
                   claims, completions, sawEmpty, reported, written, heldAtStop>>

ProcessRaise(t) ==
    /\ pc[t] = "process"
    /\ item[t] \in fails
    /\ pc' = [pc EXCEPT ![t] = "dead"]
    /\ raised' = [raised EXCEPT ![t] = TRUE]
    /\ UNCHANGED <<inputs, seqvars, others, mainvars, q, unfinished, running, item,
                   claims, completions, sawEmpty, reported, written, heldAtStop>>

Worker(t) ==
    \/ RunLoop(t)
    \/ QEmpty(t)
    \/ QGet(t)
    \/ TaskDone(t)
    \/ ProcessDone(t)
    \/ ProcessNotFound(t)
    \/ ProcessRaise(t)

Next ==
    \/ Main
    \/ \E t \in TIDs : Worker(t)

Spec == Init /\ [][Next]_vars

\* every thread of the interpreter is scheduled again and again
FairSpec ==
    /\ Init
    /\ [][Next]_vars
    /\ WF_vars(Main)
    /\ \A t \in TIDs : WF_vars(Worker(t))

\* the thread holds an index it took from the queue and has not finished
Holding(t) == pc[t] \in {"task_done", "process"}

\* the thread has been started and has not ended
Alive(t) == pc[t] \in {"run", "empty", "get", "task_done", "process"}

\* DownloadThread.stop(), called from outside on a started thread
Stop(t) ==
    /\ Alive(t)
    /\ running[t]
    /\ running' = [running EXCEPT ![t] = FALSE]
    /\ heldAtStop' = [heldAtStop EXCEPT ![t] = Holding(t)]
    /\ UNCHANGED <<inputs, seqvars, others, mainvars, q, unfinished, pc, item,
                   claims, completions, sawEmpty, raised, reported, written>>

NextStop ==
    \/ Main
    \/ \E t \in TIDs : Worker(t)
    \/ \E t \in TIDs : Stop(t)

\* the pool with a caller that may stop any thread at any time
SpecStop == Init /\ [][NextStop]_vars

\* ------------------------------------------------------------------
\* threaded_foo: FooThreads threads each execute `n += 1` on the global n
\* ------------------------------------------------------------------

\* download_xkcd and download_xkcd_threaded are not running
DlIdle ==
    /\ FirstCall
    /\ nthreads = 0 /\ start = 0 /\ stop = 0
    /\ fails = {} /\ notfound = {}
    /\ seqpc = "loop" /\ si = 0 /\ content = TRUE /\ attempts = <<>>
    /\ mainpc = "idle" /\ mi = 0 /\ threads = <<>>
    /\ q = <<>> /\ unfinished = 0
    /\ pc = [t \in TIDs |-> "new"]
    /\ running = [t \in TIDs |-> FALSE]
    /\ item = [t \in TIDs |-> NoItem]
    /\ claims = [i \in ItemIds |-> 0]
    /\ completions = [i \in ItemIds |-> 0]
    /\ sawEmpty = [t \in TIDs |-> FALSE]
    /\ raised = [t \in TIDs |-> FALSE]
    /\ reported = {}
    /\ written = [f \in FileNames |-> 0]
    /\ heldAtStop = [t \in TIDs |-> FALSE]

notFoo == <<dlvars, mpivars, poolvars, procvars, lnvars, callvars>>

FooInit ==
    /\ DlIdle
    /\ MpiIdle
    /\ PoolIdle
    /\ ProcIdle
    /\ LnIdle
    /\ n \in 0..MaxN0
    /\ n0 = n
    /\ fpc = "create"
    /\ fi = 0
    /\ fst = [t \in FooIds |-> "new"]
    /\ ftmp = [t \in FooIds |-> 0]
    /\ fout = <<>>

\* for i in range(100): t = threading.Thread(target=foo); threads.append(t)
FooCreate ==
    /\ fpc = "create"
    /\ fi \in FooIds
    /\ fst' = [fst EXCEPT ![fi] = "created"]
    /\ fi' = fi + 1
    /\ UNCHANGED <<n, n0, fpc, ftmp, fout, notFoo>>

FooCreateDone ==
    /\ fpc = "create"
    /\ fi \notin FooIds
    /\ fpc' = "start"
    /\ fi' = 0
    /\ UNCHANGED <<n, n0, fst, ftmp, fout, notFoo>>

\* for t in threads: t.start()
FooStart ==
    /\ fpc = "start"
    /\ fi \in FooIds
    /\ fst' = [fst EXCEPT ![fi] = "load"]
    /\ fi' = fi + 1
    /\ UNCHANGED <<n, n0, fpc, ftmp, fout, notFoo>>

FooStartDone ==
    /\ fpc = "start"
    /\ fi \notin FooIds
    /\ fpc' = "join"
    /\ fi' = 0
    /\ UNCHANGED <<n, n0, fst, ftmp, fout, notFoo>>

\* for t in threads: t.join() waits for the end of thread t
FooJoinNoWait ==
    /\ fpc = "join"
    /\ fi \in FooIds
    /\ fi' = fi + 1
    /\ UNCHANGED <<n, n0, fpc, fst, ftmp, fout, notFoo>>

FooJoin ==
    /\ fpc = "join"
    /\ fi \in FooIds
    /\ fst[fi] = "done"
    /\ fi' = fi + 1
    /\ UNCHANGED <<n, n0, fpc, fst, ftmp, fout, notFoo>>

\* print(n)
FooPrint ==
    /\ fpc = "join"
    /\ fi \notin FooIds
    /\ fout' = Append(fout, n)
    /\ fpc' = "done"
    /\ UNCHANGED <<n, n0, fi, fst, ftmp, notFoo>>

\* n += 1, first half: the value of the global n is loaded
FooLoad(t) ==
    /\ fst[t] = "load"
    /\ ftmp' = [ftmp EXCEPT ![t] = n]
    /\ fst' = [fst EXCEPT ![t] = "store"]
    /\ UNCHANGED <<n, n0, fpc, fi, fout, notFoo>>

\* n += 1, second half: the loaded value plus one is stored in n
FooStoreAtomic(t) ==
    /\ fst[t] = "store"
    /\ n' = n + 1
    /\ fst' = [fst EXCEPT ![t] = "done"]
    /\ UNCHANGED <<n0, fpc, fi, ftmp, fout, notFoo>>

FooStore(t) ==
    /\ fst[t] = "store"
    /\ n' = ftmp[t] + 1
    /\ fst' = [fst EXCEPT ![t] = "done"]
    /\ UNCHANGED <<n0, fpc, fi, ftmp, fout, notFoo>>

FooNext ==
    \/ FooCreate
    \/ FooCreateDone
    \/ FooStart
    \/ FooStartDone
    \/ FooJoin
    \/ FooPrint
    \/ \E t \in FooIds : FooLoad(t)
    \/ \E t \in FooIds : FooStore(t)

FooSpec == FooInit /\ [][FooNext]_vars

\* ------------------------------------------------------------------
\* The MPI programs monte_carlo_area_sendrcv, monte_carlo_area_scattergather
\* and monte_carlo_area_reduce: every rank runs the same function
\* ------------------------------------------------------------------

notMpi == <<dlvars, foovars, poolvars, procvars, lnvars, callvars>>

ActiveRanks == {r \in Ranks : r < size}

MpiInit ==
    /\ DlIdle
    /\ FooIdle
    /\ PoolIdle
    /\ ProcIdle
    /\ LnIdle
    /\ variant \in {"sendrcv", "scattergather", "reduce"}
    /\ size \in 1..MaxSize
    /\ nsamples \in 0..MaxSamples
    /\ rpc = [r \in Ranks |-> IF r < size THEN "hello" ELSE "off"]
    /\ hello = {}
    /\ atbar = {}
    /\ slist = <<>>
    /\ per = [r \in Ranks |-> MpiNone]
    /\ incircle = [r \in Ranks |-> 0]
    /\ insum = [r \in Ranks |-> [kind |-> "nparray", val |-> 0]]
    /\ draws = [r \in Ranks |-> 0]
    /\ cbuf = [r \in Ranks |-> MpiNone]
    /\ msgs = {}
    /\ nrecv = 0
    /\ aout = [r \in Ranks |-> <<>>]

RECURSIVE SumRanks(_, _)
SumRanks(f, S) ==
    IF S = {} THEN 0
    ELSE LET x == CHOOSE y \in S : TRUE IN f[x] + SumRanks(f, S \ {x})

\* print('I am rank {} of {}'.format(rank, size))
MHello(r) ==
    /\ rpc[r] = "hello"
    /\ hello' = hello \cup {r}
    /\ rpc' = [rpc EXCEPT ![r] = IF variant = "sendrcv" THEN "split" ELSE "barrier"]
    /\ UNCHANGED <<variant, size, nsamples, atbar, slist, per, incircle, insum,
                   draws, cbuf, msgs, nrecv, aout, notMpi>>

\* comm.Barrier() is called
MBarrierArrive(r) ==
    /\ rpc[r] = "barrier"
    /\ atbar' = atbar \cup {r}
    /\ rpc' = [rpc EXCEPT ![r] = "barwait"]
    /\ UNCHANGED <<variant, size, nsamples, hello, slist, per, incircle, insum,
                   draws, cbuf, msgs, nrecv, aout, notMpi>>

\* comm.Barrier() returns once every rank has called it
MBarrierPassNoWait(r) ==
    /\ rpc[r] = "barwait"
    /\ rpc' = [rpc EXCEPT ![r] = IF variant = "scattergather" THEN "mklist"
                                                             ELSE "split"]
    /\ UNCHANGED <<variant, size, nsamples, hello, atbar, slist, per, incircle,
                   insum, draws, cbuf, msgs, nrecv, aout, notMpi>>

MBarrierPass(r) ==
    /\ rpc[r] = "barwait"
    /\ atbar = ActiveRanks
    /\ rpc' = [rpc EXCEPT ![r] = IF variant = "scattergather" THEN "mklist"
                                                             ELSE "split"]
    /\ UNCHANGED <<variant, size, nsamples, hello, atbar, slist, per, incircle,
                   insum, draws, cbuf, msgs, nrecv, aout, notMpi>>

\* n_samples_per_task = n_samples // size
MSplitCeil(r) ==
    /\ rpc[r] = "split"
    /\ per' = [per EXCEPT ![r] = (nsamples + size - 1) \div size]
    /\ rpc' = [rpc EXCEPT ![r] = "sample"]
    /\ UNCHANGED <<variant, size, nsamples, hello, atbar, slist, incircle, insum,
                   draws, cbuf, msgs, nrecv, aout, notMpi>>

MSplit(r) ==
    /\ rpc[r] = "split"
    /\ per' = [per EXCEPT ![r] = nsamples \div size]
    /\ rpc' = [rpc EXCEPT ![r] = "sample"]
    /\ UNCHANGED <<variant, size, nsamples, hello, atbar, slist, incircle, insum,
                   draws, cbuf, msgs, nrecv, aout, notMpi>>

\* the list built by rank 0: [n_samples // size for i in range(size)]
RootListUnsplit == [k \in 1..size |-> nsamples]
RootList == [k \in 1..size |-> nsamples \div size]

\* rank 0 builds the list, the other ranks set n_samples_per_task = None;
\* then comm.scatter is called: rank 0 hands out the list and keeps its own
\* element, the other ranks wait in it
MMkList(r) ==
    /\ rpc[r] = "mklist"
    /\ IF r = 0
          THEN /\ slist' = RootList
               /\ per' = [per EXCEPT ![r] = RootList[1]]
               /\ rpc' = [rpc EXCEPT ![r] = "sample"]
          ELSE /\ per' = [per EXCEPT ![r] = MpiNone]
               /\ rpc' = [rpc EXCEPT ![r] = "scatter"]
               /\ UNCHANGED slist
    /\ UNCHANGED <<variant, size, nsamples, hello, atbar, incircle, insum,
                   draws, cbuf, msgs, nrecv, aout, notMpi>>

\* comm.scatter returns on a rank other than 0 with that rank's element
MScatter(r) ==
    /\ rpc[r] = "scatter"
    /\ slist # <<>>
    /\ per' = [per EXCEPT ![r] = slist[r + 1]]
    /\ rpc' = [rpc EXCEPT ![r] = "sample"]
    /\ UNCHANGED <<variant, size, nsamples, hello, atbar, slist, incircle, insum,
                   draws, cbuf, msgs, nrecv, aout, notMpi>>

\* x, y = uniform samples; n_in_circle = how many fall in the circle;
\* n_in_circle_sum = np.array([0]); draws_sum = n_samples_per_task * size
MSample(r) ==
    /\ rpc[r] = "sample"
    /\ \E c \in 0..per[r] : incircle' = [incircle EXCEPT ![r] = c]
    /\ insum' = [insum EXCEPT ![r] = [kind |-> "nparray", val |-> 0]]
    /\ draws' = [draws EXCEPT ![r] = per[r] * size]
    /\ rpc' = [rpc EXCEPT ![r] =
                  CASE variant = "sendrcv" -> IF r = 0 THEN "rootinit" ELSE "send"
                    [] variant = "scattergather" -> "gather"
                    [] OTHER -> "reduce"]
    /\ UNCHANGED <<variant, size, nsamples, hello, atbar, slist, per, cbuf, msgs,
                   nrecv, aout, notMpi>>

\* sendrcv, rank 0: n_in_circle_sum = n_in_circle
MRootInit(r) ==
    /\ rpc[r] = "rootinit"
    /\ insum' = [insum EXCEPT ![r] = [kind |-> "npint", val |-> incircle[r]]]
    /\ rpc' = [rpc EXCEPT ![r] = "recv"]
    /\ UNCHANGED <<variant, size, nsamples, hello, atbar, slist, per, incircle,
                   draws, cbuf, msgs, nrecv, aout, notMpi>>

\* sendrcv, rank 0: temp = comm.recv() takes a message of any source;
\* n_in_circle_sum += temp[0]
MRecvOverwrite(r) ==
    /\ rpc[r] = "recv"
    /\ nrecv < size - 1
    /\ \E m \in msgs :
          /\ msgs' = msgs \ {m}
          /\ insum' = [insum EXCEPT ![r] = [kind |-> "npint", val |-> m[2]]]
    /\ nrecv' = nrecv + 1
    /\ UNCHANGED <<variant, size, nsamples, rpc, hello, atbar, slist, per, incircle,
                   draws, cbuf, aout, notMpi>>

MRecv(r) ==
    /\ rpc[r] = "recv"
    /\ nrecv < size - 1
    /\ \E m \in msgs :
          /\ msgs' = msgs \ {m}
          /\ insum' = [insum EXCEPT ![r] = [kind |-> "npint", val |-> @.val + m[2]]]
    /\ nrecv' = nrecv + 1
    /\ UNCHANGED <<variant, size, nsamples, rpc, hello, atbar, slist, per, incircle,
                   draws, cbuf, aout, notMpi>>

\* sendrcv, rank 0: the loop over range(size-1) is exhausted
MRecvDone(r) ==
    /\ rpc[r] = "recv"
    /\ nrecv >= size - 1
    /\ rpc' = [rpc EXCEPT ![r] = "area"]
    /\ UNCHANGED <<variant, size, nsamples, hello, atbar, slist, per, incircle,
                   insum, draws, cbuf, msgs, nrecv, aout, notMpi>>

\* sendrcv, other ranks: comm.send([n_in_circle], 0)
MSend(r) ==
    /\ rpc[r] = "send"
    /\ msgs' = msgs \cup {<<r, incircle[r]>>}
    /\ rpc' = [rpc EXCEPT ![r] = "area"]
    /\ UNCHANGED <<variant, size, nsamples, hello, atbar, slist, per, incircle,
                   insum, draws, cbuf, nrecv, aout, notMpi>>

\* results = comm.gather(n_in_circle, root=0): the value is handed over; on a
\* rank other than 0 the call returns None and n_in_circle_sum stays as it is
MGather(r) ==
    /\ rpc[r] = "gather"
    /\ cbuf' = [cbuf EXCEPT ![r] = incircle[r]]
    /\ rpc' = [rpc EXCEPT ![r] = IF r = 0 THEN "gatherwait" ELSE "area"]
    /\ UNCHANGED <<variant, size, nsamples, hello, atbar, slist, per, incircle,
                   insum, draws, msgs, nrecv, aout, notMpi>>

\* on rank 0 gather returns when every rank has handed over its value;
\* n_in_circle_sum = np.sum(results)
MGatherRoot(r) ==
    /\ rpc[r] = "gatherwait"
    /\ \A u \in ActiveRanks : cbuf[u] # MpiNone
    /\ insum' = [insum EXCEPT ![r] =
                    [kind |-> "npint", val |-> SumRanks(cbuf, ActiveRanks)]]
    /\ rpc' = [rpc EXCEPT ![r] = "area"]
    /\ UNCHANGED <<variant, size, nsamples, hello, atbar, slist, per, incircle,
                   draws, cbuf, msgs, nrecv, aout, notMpi>>

\* n_in_circle_sum = comm.reduce(n_in_circle, root=0, op=MPI.SUM): the value is
\* handed over; on a rank other than 0 the call returns None, which the next
\* statement replaces by the int 0
MReduceKeepLocal(r) ==
    /\ rpc[r] = "reduce"
    /\ cbuf' = [cbuf EXCEPT ![r] = incircle[r]]
    /\ IF r = 0
          THEN /\ rpc' = [rpc EXCEPT ![r] = "reducewait"]
               /\ UNCHANGED insum
          ELSE /\ rpc' = [rpc EXCEPT ![r] = "area"]
               /\ insum' = [insum EXCEPT ![r] = [kind |-> "pyint", val |-> incircle[r]]]
    /\ UNCHANGED <<variant, size, nsamples, hello, atbar, slist, per, incircle,
                   draws, msgs, nrecv, aout, notMpi>>

MReduce(r) ==
    /\ rpc[r] = "reduce"
    /\ cbuf' = [cbuf EXCEPT ![r] = incircle[r]]
    /\ IF r = 0
          THEN /\ rpc' = [rpc EXCEPT ![r] = "reducewait"]
               /\ UNCHANGED insum
          ELSE /\ rpc' = [rpc EXCEPT ![r] = "area"]
               /\ insum' = [insum EXCEPT ![r] = [kind |-> "pyint", val |-> 0]]
    /\ UNCHANGED <<variant, size, nsamples, hello, atbar, slist, per, incircle,
                   draws, msgs, nrecv, aout, notMpi>>

\* on rank 0 reduce returns the sum when every rank has handed over its value
MReduceRoot(r) ==
    /\ rpc[r] = "reducewait"
    /\ \A u \in ActiveRanks : cbuf[u] # MpiNone
    /\ insum' = [insum EXCEPT ![r] =
                    [kind |-> "npint", val |-> SumRanks(cbuf, ActiveRanks)]]
    /\ rpc' = [rpc EXCEPT ![r] = "area"]
    /\ UNCHANGED <<variant, size, nsamples, hello, atbar, slist, per, incircle,
                   draws, cbuf, msgs, nrecv, aout, notMpi>>

\* 4 * n_in_circle_sum / draws_sum raises ZeroDivisionError when both operands
\* are Python ints and draws_sum is 0; with a numpy operand it yields nan
DivisionRaises(r) == insum[r].kind = "pyint" /\ draws[r] = 0

\* area = 4 * n_in_circle_sum / draws_sum and the final print
MArea(r) ==
    /\ rpc[r] = "area"
    /\ ~DivisionRaises(r)
    /\ aout' = [aout EXCEPT ![r] = Append(@, <<4 * insum[r].val, draws[r]>>)]
    /\ rpc' = [rpc EXCEPT ![r] = "done"]
    /\ UNCHANGED <<variant, size, nsamples, hello, atbar, slist, per, incircle,
                   insum, draws, cbuf, msgs, nrecv, notMpi>>

\* the division raises: the rank ends with a traceback and prints no area
MAreaRaise(r) ==
    /\ rpc[r] = "area"
    /\ DivisionRaises(r)
    /\ rpc' = [rpc EXCEPT ![r] = "raised"]
    /\ UNCHANGED <<variant, size, nsamples, hello, atbar, slist, per, incircle,
                   insum, draws, cbuf, msgs, nrecv, aout, notMpi>>

Rank(r) ==
    \/ MHello(r)
    \/ MBarrierArrive(r)
    \/ MBarrierPass(r)
    \/ MSplit(r)
    \/ MMkList(r)
    \/ MScatter(r)
    \/ MSample(r)
    \/ MRootInit(r)
    \/ MRecv(r)
    \/ MRecvDone(r)
    \/ MSend(r)
    \/ MGather(r)
    \/ MGatherRoot(r)
    \/ MReduce(r)
    \/ MReduceRoot(r)
    \/ MArea(r)
    \/ MAreaRaise(r)

MpiNext == \E r \in Ranks : Rank(r)

MpiSpec == MpiInit /\ [][MpiNext]_vars

\* every MPI process keeps running
MpiFairSpec ==
    /\ MpiInit
    /\ [][MpiNext]_vars
    /\ \A r \in Ranks : WF_vars(Rank(r))

\* ---- monte_carlo_area_mp and monte_carlo_area_async ----
notPool == <<dlvars, foovars, mpivars, procvars, lnvars, callvars>>

PoolInit ==
    /\ DlIdle
    /\ FooIdle
    /\ MpiIdle
    /\ ProcIdle
    /\ LnIdle
    /\ pmode \in {"mp", "async"}
    /\ nproc \in 0..MaxProc
    /\ psamples \in 0..MaxSamples
    /\ ppc = "pool"
    /\ pk = 0
    /\ ptask = [k \in PoolIds |-> "none"]
    /\ pargs = [k \in PoolIds |-> 0]
    /\ pval = [k \in PoolIds |-> 0]
    /\ pres = <<>>
    /\ pprint = <<>>

\* the sum of column j of a list of pairs: np.sum(results[:,j])
RECURSIVE SumCol(_, _)
SumCol(s, j) == IF s = <<>> THEN 0 ELSE s[1][j] + SumCol(Tail(s), j)

\* the tasks handed to the pool and not yet finished
PoolInFlight == {k \in PoolIds : ptask[k] \in {"queued", "running"}}

\* pool = mp.Pool(processes=n_proc)
PPool ==
    /\ ppc = "pool"
    /\ nproc >= 1
    /\ ppc' = "submit"
    /\ UNCHANGED <<pmode, nproc, psamples, pk, ptask, pargs, pval, pres, pprint, notPool>>

\* mp.Pool(processes=0) raises ValueError
PPoolRaise ==
    /\ ppc = "pool"
    /\ nproc = 0
    /\ ppc' = "raised"
    /\ UNCHANGED <<pmode, nproc, psamples, pk, ptask, pargs, pval, pres, pprint, notPool>>

\* pool.apply(counts_in_a_circle, args=(n_samples//n_proc,)): hand over the task ...
PApply ==
    /\ ppc = "submit"
    /\ pmode = "mp"
    /\ pk < nproc
    /\ ptask' = [ptask EXCEPT ![pk] = "queued"]
    /\ pargs' = [pargs EXCEPT ![pk] = psamples \div nproc]
    /\ ppc' = "applywait"
    /\ UNCHANGED <<pmode, nproc, psamples, pk, pval, pres, pprint, notPool>>

PApplyReturnEarly ==
    /\ ppc = "applywait"
    /\ pres' = Append(pres, <<pval[pk], pargs[pk]>>)
    /\ pk' = pk + 1
    /\ ppc' = "submit"
    /\ UNCHANGED <<pmode, nproc, psamples, ptask, pargs, pval, pprint, notPool>>

\* ... and wait for its result
PApplyReturn ==
    /\ ppc = "applywait"
    /\ ptask[pk] = "done"
    /\ pres' = Append(pres, <<pval[pk], pargs[pk]>>)
    /\ pk' = pk + 1
    /\ ppc' = "submit"
    /\ UNCHANGED <<pmode, nproc, psamples, ptask, pargs, pval, pprint, notPool>>

\* pool.apply_async(counts_in_a_circle, args=(n_samples//n_proc,))
PApplyAsync ==
    /\ ppc = "submit"
    /\ pmode = "async"
    /\ pk < nproc
    /\ ptask' = [ptask EXCEPT ![pk] = "queued"]
    /\ pargs' = [pargs EXCEPT ![pk] = psamples \div nproc]
    /\ pk' = pk + 1
    /\ UNCHANGED <<pmode, nproc, psamples, ppc, pval, pres, pprint, notPool>>

PSubmitDoneEarly ==
    /\ ppc = "submit"
    /\ pk >= 1
    /\ IF pmode = "mp"
          THEN /\ ppc' = "area"
               /\ UNCHANGED <<pk, pprint>>
          ELSE /\ ppc' = "get"
               /\ pk' = 0
               /\ pprint' = Append(pprint, <<"Function called">>)
    /\ UNCHANGED <<pmode, nproc, psamples, ptask, pargs, pval, pres, notPool>>

\* the end of `for x in range(n_proc)`; monte_carlo_area_async then prints
\* 'Function called'
PSubmitDone ==
    /\ ppc = "submit"
    /\ pk = nproc
    /\ IF pmode = "mp"
          THEN /\ ppc' = "area"
               /\ UNCHANGED <<pk, pprint>>
          ELSE /\ ppc' = "get"
               /\ pk' = 0
               /\ pprint' = Append(pprint, <<"Function called">>)
    /\ UNCHANGED <<pmode, nproc, psamples, ptask, pargs, pval, pres, notPool>>

\* p.get() on the pk-th AsyncResult: blocks until that task has finished
PGet ==
    /\ ppc = "get"
    /\ pk < nproc
    /\ ptask[pk] = "done"
    /\ pres' = Append(pres, <<pval[pk], pargs[pk]>>)
    /\ pk' = pk + 1
    /\ UNCHANGED <<pmode, nproc, psamples, ppc, ptask, pargs, pval, pprint, notPool>>

\* the end of `for p in results`, then print('Results returned')
PGetDone ==
    /\ ppc = "get"
    /\ pk = nproc
    /\ pprint' = Append(pprint, <<"Results returned">>)
    /\ ppc' = "area"
    /\ UNCHANGED <<pmode, nproc, psamples, pk, ptask, pargs, pval, pres, notPool>>

\* area = 4*np.sum(results[:,0])/np.sum(results[:,1]) on numpy integers (nan,
\* not an exception, when the denominator is 0), then print
PArea ==
    /\ ppc = "area"
    /\ pprint' = Append(pprint, <<"area", 4 * SumCol(pres, 1), SumCol(pres, 2)>>)
    /\ ppc' = "done"
    /\ UNCHANGED <<pmode, nproc, psamples, pk, ptask, pargs, pval, pres, notPool>>

\* one of the n_proc processes of the pool takes the oldest task handed over
PTaskStart(k) ==
    /\ ptask[k] = "queued"
    /\ \A j \in PoolIds : j < k => ptask[j] # "queued"
    /\ Cardinality({j \in PoolIds : ptask[j] = "running"}) < nproc
    /\ ptask' = [ptask EXCEPT ![k] = "running"]
    /\ UNCHANGED <<pmode, nproc, psamples, ppc, pk, pargs, pval, pres, pprint, notPool>>

\* counts_in_a_circle(n) returns n_in_circle, n
PTaskFinish(k) ==
    /\ ptask[k] = "running"
    /\ \E c \in 0..pargs[k] : pval' = [pval EXCEPT ![k] = c]
    /\ ptask' = [ptask EXCEPT ![k] = "done"]
    /\ UNCHANGED <<pmode, nproc, psamples, ppc, pk, pargs, pres, pprint, notPool>>

PoolCaller ==
    \/ PPool
    \/ PPoolRaise
    \/ PApply
    \/ PApplyReturn
    \/ PApplyAsync
    \/ PSubmitDone
    \/ PGet
    \/ PGetDone
    \/ PArea

PoolWorker(k) ==
    \/ PTaskStart(k)
    \/ PTaskFinish(k)

PoolNext == PoolCaller \/ \E k \in PoolIds : PoolWorker(k)

PoolSpec == PoolInit /\ [][PoolNext]_vars

\* one of the Monte Carlo programs runs: an MPI variant or a pool variant
SampleSpec == (MpiInit \/ PoolInit) /\ [][MpiNext \/ PoolNext]_vars

\* ---- the mp.Process example (rand_string) ----
notProc == <<dlvars, foovars, mpivars, poolvars, lnvars, callvars>>

\* the strings rand_string can produce, by number
RandStrings == 1..MaxStrings

ProcInit ==
    /\ DlIdle
    /\ FooIdle
    /\ MpiIdle
    /\ PoolIdle
    /\ LnIdle
    /\ epc = "start"
    /\ ei = 0
    /\ est = [p \in ProcIds |-> "new"]
    /\ ebuf = [p \in ProcIds |-> 0]
    /\ oq = <<>>
    /\ eres = <<>>

\* for p in processes: p.start()
EStart ==
    /\ epc = "start"
    /\ ei < NumProcesses
    /\ est' = [est EXCEPT ![ei] = "started"]
    /\ ei' = ei + 1
    /\ UNCHANGED <<epc, ebuf, oq, eres, notProc>>

EStartDone ==
    /\ epc = "start"
    /\ ei = NumProcesses
    /\ epc' = "join"
    /\ ei' = 0
    /\ UNCHANGED <<est, ebuf, oq, eres, notProc>>

\* rand_string: output.put(rand_str) leaves the string in the child's buffer
EPut(p) ==
    /\ est[p] = "started"
    /\ \E str \in RandStrings : ebuf' = [ebuf EXCEPT ![p] = str]
    /\ est' = [est EXCEPT ![p] = "put"]
    /\ UNCHANGED <<epc, ei, oq, eres, notProc>>

\* the feeder thread of the child writes the string to the pipe
EFlush(p) ==
    /\ est[p] = "put"
    /\ oq' = Append(oq, ebuf[p])
    /\ est' = [est EXCEPT ![p] = "flushed"]
    /\ UNCHANGED <<epc, ei, ebuf, eres, notProc>>

\* the child ends once its feeder thread has flushed the buffer
EExit(p) ==
    /\ est[p] = "flushed"
    /\ est' = [est EXCEPT ![p] = "exited"]
    /\ UNCHANGED <<epc, ei, ebuf, oq, eres, notProc>>

EJoinNoWait ==
    /\ epc = "join"
    /\ ei < NumProcesses
    /\ ei' = ei + 1
    /\ UNCHANGED <<epc, est, ebuf, oq, eres, notProc>>

\* for p in processes: p.join()
EJoin ==
    /\ epc = "join"
    /\ ei < NumProcesses
    /\ est[ei] = "exited"
    /\ ei' = ei + 1
    /\ UNCHANGED <<epc, est, ebuf, oq, eres, notProc>>

EJoinDone ==
    /\ epc = "join"
    /\ ei = NumProcesses
    /\ epc' = "get"
    /\ ei' = 0
    /\ UNCHANGED <<est, ebuf, oq, eres, notProc>>

\* results = [output.get() for p in processes]: get() blocks on an empty queue
EGet ==
    /\ epc = "get"
    /\ ei < NumProcesses
    /\ Len(oq) > 0
    /\ eres' = Append(eres, Head(oq))
    /\ oq' = Tail(oq)
    /\ ei' = ei + 1
    /\ UNCHANGED <<epc, est, ebuf, notProc>>

\* print(results)
EPrint ==
    /\ epc = "get"
    /\ ei = NumProcesses
    /\ epc' = "done"
    /\ UNCHANGED <<ei, est, ebuf, oq, eres, notProc>>

ProcParent ==
    \/ EStart
    \/ EStartDone
    \/ EJoin
    \/ EJoinDone
    \/ EGet
    \/ EPrint

ProcChild(p) ==
    \/ EPut(p)
    \/ EFlush(p)
    \/ EExit(p)

ProcNext == ProcParent \/ \E p \in ProcIds : ProcChild(p)

ProcSpec == ProcInit /\ [][ProcNext]_vars

\* ---- lnprior, lnlike and lnprob of "Model Fitting in Python" ----
notLn == <<dlvars, foovars, mpivars, poolvars, procvars, callvars>>

\* the values of sigma the sampler may propose
Sigmas == {Fin(<<v>>) : v \in (-MaxSigma)..MaxSigma} \cup {NaN}

LnInit ==
    /\ DlIdle
    /\ FooIdle
    /\ MpiIdle
    /\ PoolIdle
    /\ ProcIdle
    /\ tb \in (-MaxTheta)..MaxTheta
    /\ tm \in (-MaxTheta)..MaxTheta
    /\ tsigma \in Sigmas
    /\ dx \in 0..MaxData
    /\ dy \in 0..MaxData
    /\ lpc = "prior"
    /\ lp = Unset
    /\ ll = Unset
    /\ lout = Unset
    /\ likeCalls = 0

\* sigma < 0 (False for nan)
Negative(s) == s.kind = "fin" /\ s.term[1] < 0

\* np.isfinite
IsFinite(v) == v.kind = "fin"

\* float64 addition
FAdd(a, b) ==
    IF a.kind = "nan" \/ b.kind = "nan" THEN NaN
    ELSE IF a.kind = "fin" /\ b.kind = "fin" THEN Fin(a.term \o b.term)
    ELSE IF a.kind = "fin" THEN b
    ELSE IF b.kind = "fin" THEN a
    ELSE IF a.kind = b.kind THEN a
    ELSE NaN

\* linear_func(x, m, b)
linear_func(x, m, b) == m * x + b

LnPriorNoGuard(b, m, s) ==
    IF s.kind = "nan" THEN NaN
    ELSE IF s.term[1] = 0 THEN PInf
    ELSE Fin(<<1, s.term[1], 1 + m * m>>)

\* lnprior(theta): -inf for sigma < 0, else 1/(sigma*np.sqrt(1+m**2)**3), a
\* float64 division: inf for sigma = 0, nan for sigma = nan
LnPrior(b, m, s) ==
    IF Negative(s) THEN NInf
    ELSE IF s.kind = "nan" THEN NaN
    ELSE IF s.term[1] = 0 THEN PInf
    ELSE Fin(<<1, s.term[1], 1 + m * m>>)

\* lnlike(theta, x, y): -np.sum(2*np.log(sigma) + ((y - y_pred)/sigma)**2),
\* finite for sigma > 0 and nan otherwise (log of 0 or of a negative number)
LnLike(b, m, s, x, y) ==
    IF s.kind = "fin" /\ s.term[1] > 0
        THEN Fin(<<2, s.term[1], y - linear_func(x, m, b)>>)
        ELSE NaN

\* p = lnprior(theta)
LPCallPrior ==
    /\ lpc = "prior"
    /\ lp' = LnPrior(tb, tm, tsigma)
    /\ lpc' = "check"
    /\ UNCHANGED <<tb, tm, tsigma, dx, dy, ll, lout, likeCalls, notLn>>

\* if not np.isfinite(p): return -np.inf
LPReturnInf ==
    /\ lpc = "check"
    /\ ~IsFinite(lp)
    /\ lout' = NInf
    /\ lpc' = "returned"
    /\ UNCHANGED <<tb, tm, tsigma, dx, dy, lp, ll, likeCalls, notLn>>

\* the call lnlike(theta, *args) of the return statement
LPCallLike ==
    /\ lpc = "check"
    /\ IsFinite(lp)
    /\ ll' = LnLike(tb, tm, tsigma, dx, dy)
    /\ likeCalls' = likeCalls + 1
    /\ lpc' = "sum"
    /\ UNCHANGED <<tb, tm, tsigma, dx, dy, lp, lout, notLn>>

\* return p+lnlike(theta, *args)
LPReturnSum ==
    /\ lpc = "sum"
    /\ lout' = FAdd(lp, ll)
    /\ lpc' = "returned"
    /\ UNCHANGED <<tb, tm, tsigma, dx, dy, lp, ll, likeCalls, notLn>>

LnNext ==
    \/ LPCallPrior
    \/ LPReturnInf
    \/ LPCallLike
    \/ LPReturnSum

LnSpec == LnInit /\ [][LnNext]_vars

\* ---- repeated calls of download_xkcd_threaded (the %%timeit cells) ----
\* the DownloadThread objects constructed so far, over all calls
ThreadsStarted ==
    Cardinality({t \in TIDs : pc[t] # "new"})
      + Cardinality({ct \in Calls \X TIDs : old[ct[1]][ct[2]].pc # "new"})

\* the arguments of a call (at most MaxThreads threads over all calls) and the
\* indices whose processing raises; a page
\* without image leaves the queue as a page with one does, so none is assumed
CallArgs(nt, s0, s1, f, nf) ==
    /\ nt \in 0..(MaxThreads - ThreadsStarted)
    /\ s0 \in 0..MaxStart
    /\ s1 \in 0..MaxCallStop
    /\ f \in SUBSET (s0..(s1 - 1))
    /\ nf = {}

\* the first call: threads = [] and q = Queue(maxsize=0)
CallsInit ==
    /\ OthersIdle
    /\ pc = [t \in TIDs |-> "new"]
    /\ CallArgs(nthreads, start, stop, fails, notfound)
    /\ seqpc = "returned"
    /\ si = 0
    /\ content = TRUE
    /\ attempts = <<>>
    /\ mainpc = "put"
    /\ mi = start
    /\ threads = <<>>
    /\ q = <<>>
    /\ unfinished = 0
    /\ running = [t \in TIDs |-> FALSE]
    /\ item = [t \in TIDs |-> NoItem]
    /\ claims = [i \in ItemIds |-> 0]
    /\ completions = [i \in ItemIds |-> 0]
    /\ sawEmpty = [t \in TIDs |-> FALSE]
    /\ raised = [t \in TIDs |-> FALSE]
    /\ reported = {}
    /\ written = [f \in FileNames |-> 0]
    /\ heldAtStop = [t \in TIDs |-> FALSE]

\* the threads of the call that returns stay as they are; they keep the Queue
\* object they were constructed with, and the index i while download_worker
\* holds it
Leftover(t) ==
    IF pc[t] = "new"
        THEN NoThread
        ELSE [pc |-> pc[t],
              item |-> IF Holding(t) THEN item[t] ELSE NoItem,
              bad |-> Holding(t) /\ item[t] \in fails,
              run |-> running[t], tq |-> qid]

\* the state of the next call at its entry, whatever Queue object it uses
Reenter ==
    /\ mainpc = "returned"
    /\ callno < MaxCalls
    /\ callno' = callno + 1
    /\ old' = [old EXCEPT ![callno] = [t \in TIDs |-> Leftover(t)]]
    /\ \E nt \in 0..MaxThreads, s0 \in 0..MaxStart, s1 \in 0..MaxCallStop :
         \E f \in SUBSET (s0..(s1 - 1)) :
             /\ CallArgs(nt, s0, s1, f, {})
             /\ nthreads' = nt
             /\ start' = s0
             /\ stop' = s1
             /\ fails' = f
             /\ notfound' = {}
             /\ mi' = s0
    /\ mainpc' = "put"
    /\ threads' = <<>>
    /\ pc' = [t \in TIDs |-> "new"]
    /\ running' = [t \in TIDs |-> FALSE]
    /\ item' = [t \in TIDs |-> NoItem]
    /\ claims' = [i \in ItemIds |-> 0]
    /\ completions' = [i \in ItemIds |-> 0]
    /\ sawEmpty' = [t \in TIDs |-> FALSE]
    /\ raised' = [t \in TIDs |-> FALSE]
    /\ reported' = {}
    /\ written' = [f \in FileNames |-> 0]
    /\ heldAtStop' = [t \in TIDs |-> FALSE]
    /\ UNCHANGED <<seqvars, gets, foovars, mpivars, poolvars, procvars, lnvars>>

RecallSharedQueue ==
    /\ Reenter
    /\ UNCHANGED <<qid, oldq, q, unfinished>>

\* the next %%timeit run calls download_xkcd_threaded again:
\* q = Queue(maxsize=0) constructs a new Queue object
Recall ==
    /\ Reenter
    /\ qid' = callno + 1
    /\ oldq' = [oldq EXCEPT ![callno] = [items |-> q, unf |-> unfinished]]
    /\ q' = <<>>
    /\ unfinished' = 0

\* a step of a thread started by an earlier call c: run() and download_worker
\* on the Queue object the thread was constructed with
OldWorker(c, t) ==
    LET th == old[c][t]
        cur == th.tq = qid
        items == IF cur THEN q ELSE oldq[th.tq].items
        unf == IF cur THEN unfinished ELSE oldq[th.tq].unf
        Move(th2) == old' = [old EXCEPT ![c][t] = th2]
    IN  /\ c < callno
        /\ th.pc \in {"run", "empty", "get", "task_done", "process"}
        /\ IF th.pc = "run"
             THEN /\ Move([th EXCEPT !.pc = IF th.run THEN "empty" ELSE "dead"])
                  /\ UNCHANGED <<q, unfinished, oldq, gets>>
           ELSE IF th.pc = "empty"
             THEN /\ Move([th EXCEPT !.pc = IF Len(items) = 0 THEN "run" ELSE "get"])
                  /\ UNCHANGED <<q, unfinished, oldq, gets>>
           ELSE IF th.pc = "get"
             THEN /\ Len(items) > 0
                  /\ \E b \in (IF cur THEN {Head(items) \in fails} ELSE BOOLEAN) :
                        Move([th EXCEPT !.pc = "task_done", !.item = Head(items),
                                        !.bad = b])
                  /\ gets' = gets \cup {<<c, IF cur THEN callno ELSE th.tq>>}
                  /\ IF cur THEN /\ q' = Tail(q)
                                 /\ UNCHANGED oldq
                            ELSE /\ oldq' = [oldq EXCEPT ![th.tq].items = Tail(@)]
                                 /\ UNCHANGED q
                  /\ UNCHANGED unfinished
           ELSE IF th.pc = "task_done"
             THEN /\ Move([th EXCEPT !.pc = IF unf <= 0 THEN "dead" ELSE "process"])
                  /\ IF unf <= 0 THEN UNCHANGED <<unfinished, oldq>>
                     ELSE IF cur THEN /\ unfinished' = unfinished - 1
                                      /\ UNCHANGED oldq
                     ELSE /\ oldq' = [oldq EXCEPT ![th.tq].unf = @ - 1]
                          /\ UNCHANGED unfinished
                  /\ UNCHANGED <<q, gets>>
           ELSE /\ Move([th EXCEPT !.pc = IF th.bad THEN "dead" ELSE "empty",
                                   !.item = NoItem, !.bad = FALSE])
                /\ UNCHANGED <<q, unfinished, oldq, gets>>
        /\ UNCHANGED <<inputs, seqvars, mainvars, pc, running, item, ghost,
                       callno, qid, foovars, mpivars, poolvars, procvars, lnvars>>

\* download_xkcd_threaded without the sequential download before it
CallMain ==
    \/ Put
    \/ PutDone
    \/ Construct
    \/ SpawnDone
    \/ StartThread
    \/ AppendThread
    \/ Join
    \/ DelThread
    \/ Return

\* run() and download_worker on pages that have an image or raise
CallWorker(t) ==
    \/ RunLoop(t)
    \/ QEmpty(t)
    \/ QGet(t)
    \/ TaskDone(t)
    \/ ProcessDone(t)
    \/ ProcessRaise(t)

NextCalls ==
    \/ CallMain
    \/ \E t \in TIDs : CallWorker(t)
    \/ Recall
    \/ \E c \in Calls, t \in TIDs : OldWorker(c, t)

SpecCalls == CallsInit /\ [][NextCalls]_vars

TypeOK ==
    /\ nthreads \in 0..MaxThreads
    /\ mainpc \in {"idle", "seq", "put", "spawn", "start", "append", "join", "del", "returned"}
    /\ unfinished \in Nat
    /\ pc \in [TIDs -> {"new", "created", "run", "empty", "get", "task_done",
                        "process", "dead"}]
    /\ running \in [TIDs -> BOOLEAN]
    /\ item \in [TIDs -> ItemIds \cup {NoItem}]

\* ------------------------------------------------------------------
\* Vocabulary of the properties
\* ------------------------------------------------------------------

RECURSIVE SumOver(_, _)
SumOver(f, S) ==
    IF S = {} THEN 0
    ELSE LET x == CHOOSE y \in S : TRUE IN f[x] + SumOver(f, S \ {x})

\* indices claimed and not yet completely processed
InFlight == {i \in ItemIds : \E t \in TIDs : Holding(t) /\ item[t] = i}

QueueItems == {q[k] : k \in 1..Len(q)}

\* C1: when download_xkcd_threaded returns, every index of the range has been
\* processed to completion exactly once and no thread is still processing.
C1_AllProcessedAtReturn ==
    mainpc = "returned" =>
        /\ \A i \in ItemRange : claims[i] = 1 /\ completions[i] = 1
        /\ \A i \in ItemIds \ ItemRange : completions[i] = 0
        /\ \A t \in TIDs : ~Holding(t)

\* C2: q.get() never delivers the same index twice, to whichever threads.
C2_ClaimedAtMostOnce ==
    \A i \in ItemIds : claims[i] <= 1

\* C2 witness: two threads hold two different indices at the same time.
C2_Witness ==
    \E t1, t2 \in TIDs :
        /\ t1 # t2
        /\ Holding(t1) /\ Holding(t2)
        /\ item[t1] # item[t2]
        /\ claims[item[t1]] = 1 /\ claims[item[t2]] = 1

\* C3: when the processing of some index raises, every other index is still
\* processed eventually and download_xkcd_threaded still returns.
C3_RaiseConfined ==
    (nthreads >= 1 /\ fails # {}) =>
        /\ \A i \in ItemIds :
              (i \in ItemRange \ fails) => <>(completions[i] >= 1)
        /\ <>(mainpc = "returned")

\* C4: at the return of download_xkcd_threaded no thread it started is alive.
C4_NoThreadAliveAtReturn ==
    mainpc = "returned" => \A t \in TIDs : ~Alive(t)

\* C5: once a thread has seen the queue empty it does not call the worker
\* function again.
C5_NoCallAfterEmpty ==
    [][\A t \in TIDs :
          sawEmpty[t] => ~(pc[t] = "run" /\ pc'[t] = "empty")]_vars

\* C6: a thread that passed the test `not q.empty()` never stands at q.get()
\* with an empty queue.
C6_GetNeverOnEmptyQueue ==
    \A t \in TIDs : pc[t] = "get" => Len(q) > 0

\* C7: with at least one thread and no raising index, every index on the
\* queue is eventually processed to completion.
C7_EveryItemEventuallyProcessed ==
    \A i \in ItemIds :
        (nthreads >= 1 /\ fails = {} /\ i \in QueueItems)
            ~> (completions[i] >= 1)

\* C7 witness: a batch larger than the pool has been processed completely.
C7_Witness ==
    /\ fails = {}
    /\ nthreads >= 1
    /\ Cardinality(ItemRange) > nthreads
    /\ \A i \in ItemRange : completions[i] >= 1

\* C8: with an empty range q.join() never has to wait, and no thread takes or
\* processes an index.
C8_EmptyRangeNeverBlocks ==
    stop <= start =>
        /\ unfinished = 0
        /\ Len(q) = 0
        /\ \A i \in ItemIds : claims[i] = 0 /\ completions[i] = 0
        /\ \A t \in TIDs : pc[t] \notin {"get", "task_done", "process"}

\* C8 witness: the call with an empty range has returned and a thread it
\* started has seen the empty queue.
C8_Witness ==
    /\ stop <= start
    /\ mainpc = "returned"
    /\ \E t \in TIDs : sawEmpty[t]

\* C9: with nthreads = 0 or stop < start no thread is created and the call
\* neither waits in q.join() nor returns.
Malformed == nthreads = 0 \/ stop < start

C9_MalformedFailsEarly ==
    Malformed =>
        /\ \A t \in TIDs : pc[t] = "new"
        /\ mainpc # "returned"
        /\ ~(mainpc = "join" /\ unfinished # 0)

\* C10: never more than nthreads indices are claimed and unfinished, and every
\* outstanding claim belongs to a thread of its own.
C10_AtMostNThreadsInFlight ==
    /\ Cardinality(InFlight) <= nthreads
    /\ SumOver(claims, ItemIds) - SumOver(completions, ItemIds)
         - Cardinality({t \in TIDs : raised[t]})
       = Cardinality({t \in TIDs : Holding(t)})

\* C10 witness: every thread of the pool holds an index while more are pending.
C10_Witness ==
    /\ nthreads >= 2
    /\ Cardinality(InFlight) = nthreads
    /\ Len(q) > 0

\* the queue as range(start, stop) fills it
ExpectedQueue == [k \in 1..(stop - start) |-> start + k - 1]

\* C11: the queue is filled with start, ..., stop-1 in increasing order before
\* the first thread is created, and exactly nthreads threads are started.
C11_PopulateThenStart ==
    /\ (mainpc \notin {"seq", "put"} /\ \A t \in TIDs : pc[t] \in {"new", "created"})
          => q = ExpectedQueue
    /\ (\E t \in TIDs : pc[t] # "new") => mainpc \notin {"seq", "put"}
    /\ mainpc \in {"join", "del", "returned"}
          => /\ Cardinality({t \in TIDs : pc[t] # "new"}) = nthreads
             /\ \A t \in TIDs : pc[t] \notin {"created"}
             /\ Len(threads) <= nthreads

\* C11 witness: a batch of three is queued in order and the second thread is
\* about to be started.
C11_Witness ==
    /\ stop - start = 3
    /\ mainpc = "start"
    /\ mi = 1
    /\ pc[0] = "run"
    /\ q = ExpectedQueue

\* a thread leaves the loop body for an index whose page has no image
NotFoundStep(t) ==
    pc[t] = "process" /\ item[t] \in notfound /\ pc'[t] # "process"

\* C12: a page without image only gets the failure printed; the thread goes
\* back to the test of the queue, and every index still queued is processed.
C12_NotFoundOnlyReported ==
    /\ [][\A t \in TIDs :
            NotFoundStep(t) =>
                /\ pc'[t] = "empty"
                /\ reported' = reported \cup {item[t]}
                /\ running'[t] = running[t]
                /\ raised'[t] = raised[t]]_vars
    /\ \A j \in ItemIds :
          (fails = {} /\ reported # {} /\ j \in QueueItems)
              ~> (completions[j] >= 1)

\* C12 witness: the only thread has reported an index and processed a later one.
C12_Witness ==
    /\ nthreads = 1
    /\ \E i, j \in ItemIds :
          i < j /\ i \in reported /\ completions[j] >= 1

\* C13: a thread that held an index when stop() was called takes no further
\* index from the queue.
C13_StoppedHolderClaimsNoMore ==
    [][\A t \in TIDs :
          heldAtStop[t] => ~(pc[t] = "get" /\ pc'[t] = "task_done")]_vars

\* C14: a thread that stores after another thread has stored since its load
\* does not advance n: the other increment is lost.
C14_StaleStoreLosesUpdate ==
    [][\A t \in FooIds :
          (fst[t] = "store" /\ fst'[t] = "done" /\ ftmp[t] < n) => n' <= n]_vars

\* C14 witness: all threads are joined, n is printed and has grown by fewer
\* than the number of threads.
C14_Witness ==
    /\ fpc = "done"
    /\ \A t \in FooIds : fst[t] = "done"
    /\ n < n0 + FooThreads
    /\ fout = <<n>>

\* C15: no output file is opened for writing twice by the threads of one call.
C15_NoFileWrittenTwice ==
    \A f \in FileNames : written[f] <= 1

\* C15 witness: two threads are started and two different files are written.
C15_Witness ==
    /\ nthreads >= 2
    /\ \E i, j \in ItemIds :
          /\ i # j
          /\ FileName(i) # FileName(j)
          /\ written[FileName(i)] = 1
          /\ written[FileName(j)] = 1

\* C19: download_xkcd requests start, ..., stop-1 in increasing order whatever
\* the value of content, and in download_worker a "Not Found" page ends no
\* thread and clears no running flag.
C19_NotFoundNeverBoundsWork ==
    /\ [](/\ attempts = [k \in 1..Len(attempts) |-> start + k - 1]
          /\ seqpc = "returned" =>
                Len(attempts) = (IF stop > start THEN stop - start ELSE 0))
    /\ [][\A t \in TIDs :
            NotFoundStep(t) =>
                /\ \A u \in TIDs : pc'[u] = "dead" => pc[u] = "dead"
                /\ running' = running
                /\ q' = q]_vars

\* C19 witness: download_xkcd has returned with content = False after
\* requesting an index beyond the one that was not found.
C19_Witness ==
    /\ seqpc = "returned"
    /\ content = FALSE
    /\ \E k \in 1..Len(attempts) : attempts[k] \in notfound /\ k < Len(attempts)

\* the states of an index
Enqueued(i) == i \in ItemRange /\ (mainpc \notin {"idle", "seq", "put"} \/ i < mi)
Pending(i) == \E k \in 1..Len(q) : q[k] = i
Claimers(i) ==
    {t \in TIDs : item[t] = i /\ (Holding(t) \/ (pc[t] = "dead" /\ raised[t]))}
Claimed(i) == Claimers(i) # {}
Completed(i) == completions[i] >= 1

\* C20: every enqueued index is in exactly one of pending, claimed (by exactly
\* one thread) and completed, and moves only pending -> claimed -> completed.
C20_ItemLifecycle ==
    /\ [](\A i \in ItemIds :
            /\ Enqueued(i) =>
                  /\ Pending(i) \/ Claimed(i) \/ Completed(i)
                  /\ ~(Pending(i) /\ Claimed(i))
                  /\ ~(Pending(i) /\ Completed(i))
                  /\ ~(Claimed(i) /\ Completed(i))
                  /\ Cardinality(Claimers(i)) <= 1
                  /\ Cardinality({k \in 1..Len(q) : q[k] = i}) <= 1
            /\ ~Enqueued(i) => ~Pending(i) /\ ~Claimed(i) /\ ~Completed(i))
    /\ [][\A i \in ItemIds :
            /\ Pending(i)' => (Pending(i) \/ ~Enqueued(i))
            /\ Claimed(i)' => (Claimed(i) \/ Pending(i))
            /\ Completed(i)' => (Completed(i) \/ Claimed(i))]_vars

\* C20 witness: one index is pending, one is claimed and one is completed.
C20_Witness ==
    \E i, j, k \in ItemIds : Pending(i) /\ Claimed(j) /\ Completed(k)

\* every rank of the MPI program has ended
MpiEnded == \A r \in ActiveRanks : rpc[r] \in {"done", "raised"}

\* C16: in monte_carlo_area_reduce every rank splits, counts, reduces and
\* prints its area exactly once, and rank 0 holds the sum of all local counts.
C16_ReduceEveryRankPrints ==
    (variant = "reduce" /\ MpiEnded) =>
        /\ \A r \in ActiveRanks :
              /\ r \in hello
              /\ per[r] = nsamples \div size
              /\ Len(aout[r]) = 1
        /\ insum[0].val = SumRanks(incircle, ActiveRanks)

\* C17: with comm.Barrier() no rank goes on to its scatter, sampling or reduce
\* step before every rank has printed its 'I am rank' line.
C17_BarrierHoldsRanks ==
    \A r \in ActiveRanks :
        (variant \in {"scattergather", "reduce"}
            /\ rpc[r] \notin {"hello", "barrier", "barwait"})
        => (hello = ActiveRanks /\ atbar = ActiveRanks)

\* C17 witness: one rank is past the barrier while another still waits in it.
C17_Witness ==
    /\ variant = "scattergather"
    /\ size >= 2
    /\ rpc[1] = "scatter"
    /\ rpc[0] = "barwait"

\* C18: in monte_carlo_area_scattergather every rank gets n_samples // size
\* from scatter, rank 0 gets one value per rank from gather and sums them, and
\* both calls return on every rank.
C18_ScatterGather ==
    /\ [](variant = "scattergather" =>
            /\ \A r \in ActiveRanks :
                  rpc[r] \in {"sample", "gather", "gatherwait", "area", "done"}
                      => per[r] = nsamples \div size
            /\ rpc[0] \in {"area", "done"} =>
                  /\ \A u \in ActiveRanks : cbuf[u] = incircle[u]
                  /\ insum[0].val = SumRanks(incircle, ActiveRanks)
                  /\ insum[0].kind = "npint")
    /\ (variant = "scattergather") ~> (\A r \in ActiveRanks : rpc[r] = "done")

\* C18 witness: several ranks have contributed a non-zero count and all are done.
C18_Witness ==
    /\ variant = "scattergather"
    /\ size >= 2
    /\ \A r \in ActiveRanks : rpc[r] = "done" /\ incircle[r] >= 1
    /\ insum[0].val >= 2

\* C21: q.join() returns only when the queue is empty and no thread holds an
\* index whose processing is unfinished.
C21_JoinOnlyWhenDrained ==
    [][(mainpc = "join" /\ mainpc' = "del")
          => (Len(q) = 0 /\ \A t \in TIDs : ~Holding(t))]_vars

\* C22: with at least one thread and no raising index download_xkcd_threaded
\* eventually returns with an empty list threads; with no thread and a
\* non-empty range it never returns.
C22_ReturnsIffWorkers ==
    /\ (nthreads >= 1 /\ fails = {}) ~> (mainpc = "returned" /\ threads = <<>>)
    /\ []((nthreads = 0 /\ stop > start) => mainpc \notin {"del", "returned"})

\* C22 witness: a call with two threads and three indices has returned.
C22_Witness ==
    /\ nthreads = 2
    /\ fails = {}
    /\ stop - start = 3
    /\ mainpc = "returned"
    /\ threads = <<>>

\* C23: a created thread has running = False and runs nothing; start() sets
\* running = True as the thread begins; a test of the flag made after stop()
\* begins no call of the function and ends run().
C23_StopFlag ==
    /\ [](\A t \in TIDs : pc[t] = "created" => (~running[t] /\ ~ENABLED Worker(t)))
    /\ [][\A t \in TIDs :
            (pc[t] = "created" /\ pc'[t] # "created")
                => (pc'[t] = "run" /\ running'[t])]_vars
    /\ [][\A t \in TIDs :
            (pc[t] = "run" /\ pc'[t] # "run")
                => pc'[t] = (IF running[t] THEN "empty" ELSE "dead")]_vars

\* C23 witness: a thread stopped while it held an index has left run() without
\* an exception.
C23_Witness ==
    \E t \in TIDs :
        pc[t] = "dead" /\ ~running[t] /\ ~raised[t] /\ heldAtStop[t]

\* C24: in monte_carlo_area_sendrcv rank 0 receives exactly size-1 messages,
\* none stays undelivered, every rank ends, and rank 0 holds the sum of all
\* local counts.
C24_SendRecvProtocol ==
    /\ []((variant = "sendrcv" /\ rpc[0] \in {"area", "done"}) =>
            /\ nrecv = size - 1
            /\ msgs = {}
            /\ insum[0].val = SumRanks(incircle, ActiveRanks))
    /\ []((variant = "sendrcv") =>
            /\ nrecv <= size - 1
            /\ \A m \in msgs : m[1] \in ActiveRanks \ {0} /\ rpc[m[1]] \in {"area", "done"}
            /\ nrecv + Cardinality(msgs)
                 = Cardinality({r \in ActiveRanks : r # 0 /\ rpc[r] \in {"area", "done"}}))
    /\ (variant = "sendrcv") ~> (\A r \in ActiveRanks : rpc[r] = "done")

\* C24 witness: three ranks have ended and the two messages carried different
\* counts.
C24_Witness ==
    /\ variant = "sendrcv"
    /\ size = 3
    /\ \A r \in ActiveRanks : rpc[r] = "done"
    /\ incircle[1] # incircle[2]
    /\ insum[0].val >= 1

\* C28: on every rank other than 0 the n_in_circle_sum that enters the area
\* is 0, whatever the local counts.
C28_OnlyRootHoldsSum ==
    \A r \in ActiveRanks :
        (r # 0 /\ rpc[r] \in {"area", "done", "raised"}) =>
            /\ insum[r].val = 0
            /\ insum[r].kind = (IF variant = "reduce" THEN "pyint" ELSE "nparray")
            /\ \A k \in 1..Len(aout[r]) : aout[r][k][1] = 0

\* C28 witness: a rank other than 0 with a non-zero local count has printed.
C28_Witness ==
    /\ variant = "reduce"
    /\ size >= 2
    /\ rpc[1] = "done"
    /\ incircle[1] >= 1
    /\ Len(aout[1]) = 1

\* C30: threaded_foo prints n once, after every thread has ended, and the
\* printed value exceeds the initial n by 1 to the number of threads.
C30_PrintedWithinBounds ==
    fout # <<>> =>
        /\ Len(fout) = 1
        /\ \A t \in FooIds : fst[t] = "done"
        /\ fout[1] - n0 >= 1
        /\ fout[1] - n0 <= FooThreads
        /\ fout[1] = n

\* C30 witness: all updates but one were lost.
C30_Witness ==
    /\ fpc = "done"
    /\ fout = <<n0 + 1>>

\* C25: monte_carlo_area_async prints 'Function called' after all n_proc
\* tasks are handed over and before any result is fetched, 'Results returned'
\* after all n_proc results are fetched, and computes the area from n_proc
\* results of n_samples // n_proc draws each.
C25_SubmitAllThenWait ==
    pmode = "async" =>
        /\ pprint = <<>> => pres = <<>>
        /\ pprint # <<>> =>
              /\ pprint[1] = <<"Function called">>
              /\ \A k \in 0..(nproc - 1) : ptask[k] # "none"
        /\ Len(pprint) >= 2 =>
              /\ pprint[2] = <<"Results returned">>
              /\ Len(pres) = nproc
        /\ Len(pprint) >= 3 =>
              /\ Len(pprint) = 3
              /\ Len(pres) = nproc
              /\ \A i \in 1..Len(pres) : pres[i][2] = psamples \div nproc
              /\ pprint[3] = <<"area", 4 * SumCol(pres, 1), SumCol(pres, 2)>>

\* C25 witness: both tasks were handed over and one had already finished when
\* 'Function called' was the only line printed.
C25_Witness ==
    /\ pmode = "async"
    /\ nproc = 2
    /\ Len(pprint) = 1
    /\ pres = <<>>
    /\ ptask[0] = "done"
    /\ ptask[1] = "queued"

\* C26: once the 4 processes are joined the queue holds one string for every
\* get() still to come, so no get() blocks; results ends with 4 entries and
\* the queue empty.
C26_GetNeverBlocks ==
    /\ epc = "get" => Len(oq) = NumProcesses - ei /\ Len(eres) = ei
    /\ epc = "done" => Len(eres) = NumProcesses /\ oq = <<>>
    /\ epc \in {"get", "done"} => \A p \in ProcIds : est[p] = "exited"

\* C26 witness: results holds the 4 strings, not all equal, and the queue is
\* empty.
C26_Witness ==
    /\ epc = "done"
    /\ Len(eres) = NumProcesses
    /\ oq = <<>>
    /\ \E i, j \in 1..Len(eres) : eres[i] # eres[j]

\* C27: in monte_carlo_area_mp at most one task is in flight, and a task is
\* handed over only when every earlier one has finished.
C27_ApplyIsSequential ==
    pmode = "mp" =>
        /\ Cardinality(PoolInFlight) <= 1
        /\ \A k \in PoolIds : ptask[k] # "none" =>
              \A j \in PoolIds : j < k => ptask[j] = "done"

\* C27 witness: the second of two tasks runs in a pool of two processes.
C27_Witness ==
    /\ pmode = "mp"
    /\ nproc = 2
    /\ ptask[0] = "done"
    /\ ptask[1] = "running"

\* C29: the denominator of the area is the number of samples drawn, lies in
\* (n_samples - size, n_samples] and is 0 exactly when n_samples < size; the
\* same for n_proc in the pool variants.
C29_DrawsAccounting ==
    /\ \A r \in ActiveRanks : rpc[r] \in {"area", "done", "raised"} =>
          /\ per[r] = nsamples \div size
          /\ draws[r] = per[r] * size
          /\ (\A u \in ActiveRanks : per[u] # MpiNone)
                => draws[r] = SumRanks(per, ActiveRanks)
          /\ nsamples - size < draws[r]
          /\ draws[r] <= nsamples
          /\ draws[r] = 0 <=> nsamples < size
    /\ ppc = "done" =>
          /\ SumCol(pres, 2) = nproc * (psamples \div nproc)
          /\ SumCol(pres, 2) = SumRanks(pargs, 0..(nproc - 1))
          /\ pprint[Len(pprint)][3] = SumCol(pres, 2)
          /\ psamples - nproc < SumCol(pres, 2)
          /\ SumCol(pres, 2) <= psamples
          /\ SumCol(pres, 2) = 0 <=> psamples < nproc

\* C29 witness: three samples over two ranks: two are drawn, one is dropped.
C29_Witness ==
    /\ variant \in {"sendrcv", "scattergather", "reduce"}
    /\ size = 2
    /\ nsamples = 3
    /\ \A r \in ActiveRanks : rpc[r] = "done"
    /\ draws[0] = 2

\* C32: lnprob returns lnprior + lnlike when lnprior is finite and -inf
\* otherwise; for sigma < 0 lnprior is -inf, lnprob returns -inf and lnlike
\* is not evaluated.
C32_LnProb ==
    /\ lpc = "returned" =>
          lout = IF IsFinite(LnPrior(tb, tm, tsigma))
                    THEN FAdd(LnPrior(tb, tm, tsigma), LnLike(tb, tm, tsigma, dx, dy))
                    ELSE NInf
    /\ Negative(tsigma) =>
          /\ lpc \in {"check", "returned"} => lp = NInf
          /\ lpc = "returned" => lout = NInf
          /\ likeCalls = 0
          /\ ll = Unset
    /\ likeCalls = 1 <=> lpc = "sum" \/ (lpc = "returned" /\ IsFinite(lp))

\* C32 witness: lnprob has returned -inf for a negative sigma without a call
\* of lnlike.
C32_Witness ==
    /\ lpc = "returned"
    /\ Negative(tsigma)
    /\ lout = NInf
    /\ likeCalls = 0

\* C31: every call of download_xkcd_threaded has a Queue object of its own,
\* the threads of a call hold the object of that call, and a thread takes
\* only items put by the call that started it; nothing of a call that has
\* returned is left for another call's threads.
C31_QueuePerCall ==
    /\ qid = callno
    /\ \A g \in gets : g[1] = g[2]
    /\ \A c \in Calls, t \in TIDs : old[c][t].pc # "new" => old[c][t].tq = c
    /\ \A c \in Calls : oldq[c].items = <<>>

\* C31 witness: a thread of the first call still runs while a thread of the
\* second call holds an index.
C31_Witness ==
    /\ callno = 2
    /\ \E t \in TIDs : old[1][t].pc \in {"run", "empty", "get", "process"}
    /\ \E u \in TIDs : pc[u] = "process"

====
